---- MODULE Spec2Model ----
(***************************************************************************)
(* Model of src/earnings_scanner.py: the EarningsBeatScanner.              *)
(*                                                                         *)
(* The program is single threaded.  main builds a scanner and calls        *)
(* run_scan, which fetches the candidates (get_upcoming_earnings),         *)
(* analyses each one (analyze_stock: six evaluators run in a fixed order,  *)
(* each one a query of the data provider followed by a scoring rule),      *)
(* keeps the analyses whose total reaches alert_threshold, sorts them and  *)
(* sends one alert each (send_earnings_alert, send_discord_alert).         *)
(*                                                                         *)
(* The data provider (yfinance) and the webhook are outside the program:   *)
(* every answer they give is an input, drawn with \E from a bounded set    *)
(* at the step that makes the query.                                       *)
(*                                                                         *)
(* Three specifications share the actions:                                 *)
(*   Spec      the program as it is started: main, then run_scan over the  *)
(*             ticker universe.  The provider answers are drawn from the   *)
(*             Scan... sets, a few answers per query (a failure, no data,  *)
(*             and data that scores), so that several tickers fit.         *)
(*   SpecFind  one direct call of get_upcoming_earnings, with the calendar *)
(*             answers drawn from the full bounded domain.                 *)
(*   SpecCall  one direct call of analyze_stock on one candidate followed  *)
(*             by send_earnings_alert on the analysis it returned, with    *)
(*             the provider answers drawn from the full bounded domains.   *)
(*                                                                         *)
(* Abstractions: amounts of money are integers (prices in cents, stop and  *)
(* target prices in 1/100 cent, so that the products are exact); returns   *)
(* are whole percents; the texts of the signals are labels without the     *)
(* numbers the code formats into them; print is not modelled except for    *)
(* the per-candidate result line of run_scan (scanLog) and the delivery    *)
(* line of send_discord_alert (delivery); time.sleep is skipped.           *)
(***************************************************************************)
EXTENDS Integers, Sequences, FiniteSets, TLC

VARIABLES
    pc,             \* position of the control flow
    webhook,        \* the value of DISCORD_WEBHOOK_URL in the environment
    idx,            \* get_upcoming_earnings: index of the next ticker of sample_tickers
    upcoming,       \* earnings_stocks / upcoming_earnings: the candidates found
    k,              \* run_scan: index in upcoming of the candidate under analysis
    step,           \* analyze_stock: how many of the six evaluators have returned
    analysis,       \* analyze_stock: the analysis dict under construction
    res,            \* analyze_stock: the locals esp, insider, analyst, momentum, history, sector
    call,           \* the last provider query, its answer and what the evaluator returned
    high_priority,  \* run_scan: the analyses kept for alerting
    scanLog,        \* run_scan: the result line printed per candidate
    queue,          \* run_scan: the rest of sorted(high_priority) still to send
    posts,          \* the webhook: every alert handed to it, in order
    delivery,       \* send_discord_alert: the line it printed for the last alert
    payload         \* send_earnings_alert: the last payload built

vars == <<pc, webhook, idx, upcoming, k, step, analysis, res, call,
          high_priority, scanLog, queue, posts, delivery, payload>>

(***************************************************************************)
(* Bounds of the model                                                     *)
(***************************************************************************)
NumTickers     == 2    \* how many tickers of sample_tickers are scanned
MaxRevisions   == 10   \* largest up/down revision count the provider reports
MaxPurchases   == 4    \* largest number of recent insider purchases
MaxGrades      == 3    \* largest number of recent upgrades, and of downgrades
MaxRows        == 5    \* largest number of rows of earnings_dates
MaxReturn      == 3    \* largest 10-day return of the sector ETF, in percent
MaxPriceSteps  == 4    \* current prices are PriceStep, 2*PriceStep, ... cents
PriceStep      == 12500

(***************************************************************************)
(* Program constants                                                       *)
(***************************************************************************)
alert_threshold == 70
days_ahead      == 7
Today           == 0   \* datetime.now(), the origin of the model's dates

Min(a, b) == IF a < b THEN a ELSE b

Evaluators == <<"esp", "insider", "analyst", "momentum", "history", "sector">>

(***************************************************************************)
(* What an evaluator returns.  has is the has_data / has_activity /        *)
(* has_momentum / has_history key, score the score (esp_score for the      *)
(* first evaluator), signals the texts it returns (signal_strength,        *)
(* signal, signals), raised whether it left by an exception instead of     *)
(* returning.                                                              *)
(***************************************************************************)
Result(has, score, signals) ==
    [has |-> has, score |-> score, signals |-> signals, raised |-> FALSE]

NoSignal == Result(FALSE, 0, <<>>)

Raised == [has |-> FALSE, score |-> 0, signals |-> <<>>, raised |-> TRUE]

NotRun == [has |-> FALSE, score |-> 0, signals |-> <<>>, raised |-> FALSE]

(***************************************************************************)
(* calculate_earnings_esp.  The provider's answer: kind "error" (the       *)
(* query raises), "missing" (analysis is None or empty) or "data".         *)
(* trendCur is the 'current' entry of the 'Eps Trend' cell, rev the        *)
(* 'Eps Revisions' cell: absent from the index, a scalar (not a dict), or  *)
(* a dict with its 'current' entry and its upLast7days / downLast7days     *)
(* counts (an absent count reads as 0).  An estimate is "none" (no entry,  *)
(* or float() fails), "zero" (0.0, which Python takes as false) or "pos".  *)
(***************************************************************************)
Estimates == {"none", "zero", "pos"}

RevAbsent == [kind |-> "absent", cur |-> "none", up |-> 0, down |-> 0]
RevScalar == [kind |-> "scalar", cur |-> "none", up |-> 0, down |-> 0]
RevDict(cur, up, down) == [kind |-> "dict", cur |-> cur, up |-> up, down |-> down]

EspError   == [kind |-> "error", trendCur |-> "none", rev |-> RevAbsent]
EspMissing == [kind |-> "missing", trendCur |-> "none", rev |-> RevAbsent]
EspOf(trendCur, rev) == [kind |-> "data", trendCur |-> trendCur, rev |-> rev]

Revisions ==
    {RevAbsent, RevScalar}
    \cup {RevDict(c, u, d) : c \in Estimates, u \in 0..MaxRevisions, d \in 0..MaxRevisions}

EspData == {EspError, EspMissing} \cup {EspOf(t, r) : t \in Estimates, r \in Revisions}

\* lines 138-146: the loop over 'Eps Trend' and 'Eps Revisions'; the later
\* metric overwrites the earlier one when its cell has a 'current' entry
mean_estimate(d) ==
    IF d.rev.kind = "dict" /\ d.rev.cur # "none" THEN d.rev.cur ELSE d.trendCur

\* line 162 with the cap dropped
esp_score_uncapped(d) ==
    IF d.rev.kind = "dict" /\ d.rev.up > d.rev.down THEN d.rev.up * 5 ELSE 0

\* lines 151-164
esp_score(d) ==
    IF d.rev.kind = "dict" /\ d.rev.up > d.rev.down
    THEN Min(30, d.rev.up * 5)
    ELSE 0

\* line 170
signal_strength(s) == IF s > 20 THEN "Strong" ELSE IF s > 10 THEN "Moderate" ELSE "Weak"

calculate_earnings_esp(d) ==
    IF d.kind = "error" THEN NoSignal
    ELSE IF d.kind = "missing" THEN NoSignal
    ELSE IF mean_estimate(d) = "pos"
         THEN Result(TRUE, esp_score(d), <<signal_strength(esp_score(d))>>)
         ELSE NoSignal

(***************************************************************************)
(* check_insider_activity.  kind "error", "missing" (None or empty),       *)
(* "nocolumn" (no 'Transaction' column) or "data" with n, the number of    *)
(* rows that are purchases of the last 30 days (len(purchases)).           *)
(***************************************************************************)
InsiderOf(kind, n) == [kind |-> kind, n |-> n]

InsiderData ==
    {InsiderOf("error", 0), InsiderOf("missing", 0), InsiderOf("nocolumn", 0)}
    \cup {InsiderOf("data", n) : n \in 0..MaxPurchases}

\* lines 205-211 with the branches for two and for three purchases swapped
insider_score_swapped(n) ==
    IF n >= 3 THEN 15 ELSE IF n = 2 THEN 25 ELSE IF n = 1 THEN 10 ELSE 0

\* lines 205-211
insider_score(n) ==
    IF n >= 3 THEN 25 ELSE IF n = 2 THEN 15 ELSE IF n = 1 THEN 10 ELSE 0

\* the except clause of lines 222-224 re-raising instead of returning
check_insider_activity_raising(d) ==
    IF d.kind = "error" THEN Raised
    ELSE IF d.kind = "data" /\ d.n > 0
         THEN Result(TRUE, insider_score(d.n),
                     <<IF d.n >= 3 THEN "Cluster buying" ELSE "Insider buying">>)
         ELSE NoSignal

check_insider_activity(d) ==
    IF d.kind = "error" THEN NoSignal
    ELSE IF d.kind = "data" /\ d.n > 0
         THEN Result(TRUE, insider_score(d.n),
                     <<IF d.n >= 3 THEN "Cluster buying" ELSE "Insider buying">>)
         ELSE NoSignal

(***************************************************************************)
(* check_analyst_activity.  kind "error", "missing" (None or empty),       *)
(* "norecent" (no row of the last 30 days) or "data" with the numbers of   *)
(* recent rows graded up and graded down (a recent row may be neither).    *)
(***************************************************************************)
AnalystOf(kind, up, down) == [kind |-> kind, upgrades |-> up, downgrades |-> down]

AnalystData ==
    {AnalystOf("error", 0, 0), AnalystOf("missing", 0, 0), AnalystOf("norecent", 0, 0)}
    \cup {AnalystOf("data", u, d) : u \in 0..MaxGrades, d \in 0..MaxGrades}

check_analyst_activity(d) ==
    IF d.kind # "data" THEN NoSignal
    ELSE IF d.upgrades > d.downgrades
         THEN Result(TRUE, Min(20, d.upgrades * 7), <<"recent upgrade(s)">>)
    ELSE IF d.downgrades > d.upgrades
         THEN Result(TRUE, -10, <<"recent downgrade(s)">>)
    ELSE Result(TRUE, 0, <<>>)

(***************************************************************************)
(* check_price_momentum.  kind "error", "short" (at most 5 rows of         *)
(* history) or "data" with the last close, the close ten rows back (the    *)
(* first close when there are fewer than ten rows) and the 30-day high.    *)
(* pct_change > 5 is (current - old) * 100 > 5 * old for old > 0.          *)
(***************************************************************************)
MomentumOf(kind, cur, old, high) == [kind |-> kind, current |-> cur, old |-> old, high |-> high]

MomentumData ==
    {MomentumOf("error", 100, 100, 100), MomentumOf("short", 100, 100, 100)}
    \cup {MomentumOf("data", c, 100, h) : c \in {95, 102, 103, 105, 106}, h \in {106, 110}}

pct_change_above(d, p) == (d.current - d.old) * 100 > p * d.old

near_high(d) == (d.current - d.high) * 100 > (-3) * d.high

momentum_score(d) ==
    (IF pct_change_above(d, 5) THEN 15 ELSE IF pct_change_above(d, 2) THEN 10 ELSE 0)
    + (IF near_high(d) THEN 10 ELSE 0)

momentum_signals(d) ==
    (IF pct_change_above(d, 2) THEN <<"Up in 10 days">> ELSE <<>>)
    \o (IF near_high(d) THEN <<"Near 30-day highs">> ELSE <<>>)

check_price_momentum(d) ==
    IF d.kind # "data" THEN NoSignal
    ELSE Result(momentum_score(d) > 0, momentum_score(d), momentum_signals(d))

(***************************************************************************)
(* check_historical_beat_rate.  kind "error", "missing" (None or empty),   *)
(* "nocolumn" (no 'Surprise(%)' column) or "data" with the number of rows  *)
(* and the number of rows among the first four with a positive surprise    *)
(* (head(4): at most four rows are looked at).                             *)
(* beat_rate >= 0.75 is 4 * beats >= 3 * total.                            *)
(***************************************************************************)
HistoryOf(kind, rows, beats) == [kind |-> kind, rows |-> rows, beats |-> beats]

HistoryData ==
    {HistoryOf("error", 0, 0), HistoryOf("missing", 0, 0), HistoryOf("nocolumn", 1, 0)}
    \cup UNION {{HistoryOf("data", r, b) : b \in 0..Min(4, r)} : r \in 1..MaxRows}

history_total(d) == Min(4, d.rows)

beat_rate_score(beats, total) ==
    IF 4 * beats >= 3 * total THEN 20 ELSE IF 2 * beats >= total THEN 10 ELSE 0

check_historical_beat_rate(d) ==
    IF d.kind # "data" THEN NoSignal
    ELSE Result(TRUE, beat_rate_score(d.beats, history_total(d)), <<"quarters beat">>)

(***************************************************************************)
(* check_sector_momentum(ticker, sector).  kind "error", "missing" (one    *)
(* of the two histories is empty) or "data" with the 10-day returns of the *)
(* sector ETF and of SPY.  A sector that sector_etfs does not list makes   *)
(* no query.                                                               *)
(***************************************************************************)
SectorOf(kind, etf, spy) == [kind |-> kind, etf_return |-> etf, spy_return |-> spy]

SectorData ==
    {SectorOf("error", 0, 0), SectorOf("missing", 0, 0)}
    \cup {SectorOf("data", e, s) : e \in 0..MaxReturn, s \in {0, 1}}

sector_etfs == {"Technology", "Financial Services", "Healthcare", "Consumer Cyclical",
                "Industrials", "Energy", "Consumer Defensive", "Real Estate",
                "Communication Services", "Utilities", "Basic Materials"}

sector_score(outperformance) ==
    IF outperformance > 2 THEN 15 ELSE IF outperformance > 0 THEN 10 ELSE 0

check_sector_momentum(sector, d) ==
    IF sector \notin sector_etfs THEN NoSignal
    ELSE IF d.kind # "data" THEN NoSignal
    ELSE Result(sector_score(d.etf_return - d.spy_return) > 0,
                sector_score(d.etf_return - d.spy_return),
                <<"Sector outperforming">>)

(***************************************************************************)
(* analyze_stock: the analysis dict and what each evaluator's result adds  *)
(* to it (lines 424-474).  A signal is the triple (name, score, detail).   *)
(***************************************************************************)
Signal(name, score, detail) == [name |-> name, score |-> score, detail |-> detail]

NewAnalysis(stock_info) ==
    [ticker |-> stock_info.ticker, earnings_date |-> stock_info.earnings_date,
     sector |-> stock_info.sector, total_score |-> 0, signals |-> <<>>]

NoAnalysis ==
    [ticker |-> "", earnings_date |-> Today, sector |-> "", total_score |-> 0,
     signals |-> <<>>]

NoResults == [e \in {Evaluators[i] : i \in 1..6} |-> NotRun]

NoCall == [fn |-> "none"]

add_esp(a, r) ==
    IF r.has
    THEN [a EXCEPT !.total_score = @ + r.score,
                   !.signals = IF r.score > 0
                               THEN Append(@, Signal("Earnings ESP", r.score, r.signals[1]))
                               ELSE @]
    ELSE a

add_insider(a, r) ==
    IF r.has
    THEN [a EXCEPT !.total_score = @ + r.score,
                   !.signals = Append(@, Signal("Insider Activity", r.score, r.signals[1]))]
    ELSE a

add_analyst(a, r) ==
    IF r.has /\ r.score > 0
    THEN [a EXCEPT !.total_score = @ + r.score,
                   !.signals = Append(@, Signal("Analyst Activity", r.score, r.signals[1]))]
    ELSE a

add_momentum(a, r) ==
    IF r.has
    THEN [a EXCEPT !.total_score = @ + r.score,
                   !.signals = @ \o [i \in 1..Len(r.signals) |->
                                        Signal("Price Momentum", r.score, r.signals[i])]]
    ELSE a

add_history(a, r) ==
    IF r.has
    THEN [a EXCEPT !.total_score = @ + r.score,
                   !.signals = Append(@, Signal("Historical Beat Rate", r.score, r.signals[1]))]
    ELSE a

add_sector(a, r) ==
    IF r.has
    THEN [a EXCEPT !.total_score = @ + r.score,
                   !.signals = Append(@, Signal("Sector Momentum", r.score, r.signals[1]))]
    ELSE a

(***************************************************************************)
(* get_upcoming_earnings.  The provider's answer for one ticker: kind      *)
(* "error" (stock.calendar raises), "none" (None or empty), "norow" (no    *)
(* 'Earnings Date' row) or "date" with the date; info is the answer of     *)
(* stock.info, queried only for a date inside the window: "error" or "ok"  *)
(* with the sector ('Unknown' when the key is absent).  company and        *)
(* market_cap are left out: nothing reads market_cap, and company is only  *)
(* printed.                                                                *)
(***************************************************************************)
sample_tickers == <<"AAPL", "MSFT", "GOOGL", "AMZN", "META", "NVDA">>

CalendarOf(kind, date, info, sector) ==
    [kind |-> kind, date |-> date, info |-> info, sector |-> sector]

CalendarData ==
    {CalendarOf("error", Today, "ok", "Unknown"), CalendarOf("none", Today, "ok", "Unknown"),
     CalendarOf("norow", Today, "ok", "Unknown")}
    \cup {CalendarOf("date", d, i, s) :
            d \in {Today - 1, Today, Today + days_ahead, Today + days_ahead + 1},
            i \in {"error", "ok"}, s \in {"Technology", "Unknown"}}

\* line 93 with the comparisons strict
in_window_exclusive(date) == Today < date /\ date < Today + days_ahead

\* line 93
in_window(date) == Today <= date /\ date <= Today + days_ahead

\* lines 77-107: the candidates after the ticker's turn
found(stocks, ticker, c) ==
    IF c.kind = "date" /\ in_window(c.date) /\ c.info = "ok"
    THEN Append(stocks, [ticker |-> ticker, earnings_date |-> c.date, sector |-> c.sector])
    ELSE stocks

(***************************************************************************)
(* run_scan: the threshold test and the order of the alerts.               *)
(***************************************************************************)
\* the test of line 590 missing: every analysis is kept
qualifies_always(total) == TRUE

\* line 590 with > for >=
qualifies_strictly(total) == total > alert_threshold

\* line 590
qualifies(total) == total >= alert_threshold

\* s is sorted by total_score, descending; x goes behind every element whose
\* total is at least its own
RECURSIVE insert_behind(_, _)
insert_behind(x, s) ==
    IF s = <<>> THEN <<x>>
    ELSE IF Head(s).total_score >= x.total_score
         THEN <<Head(s)>> \o insert_behind(x, Tail(s))
         ELSE <<x>> \o s

\* x goes before the elements whose total equals its own
RECURSIVE insert_before(_, _)
insert_before(x, s) ==
    IF s = <<>> THEN <<x>>
    ELSE IF Head(s).total_score > x.total_score
         THEN <<Head(s)>> \o insert_before(x, Tail(s))
         ELSE <<x>> \o s

\* sorted(high_priority, key=..., reverse=True) as an unstable sort could do it:
\* elements of equal total end in the reverse of their order in s
RECURSIVE sorted_ties_reversed(_)
sorted_ties_reversed(s) ==
    IF s = <<>> THEN <<>>
    ELSE insert_before(s[Len(s)], sorted_ties_reversed(SubSeq(s, 1, Len(s) - 1)))

\* line 605: sorted(high_priority, key=lambda x: x['total_score'], reverse=True);
\* Python's sort is stable, also with reverse=True
RECURSIVE sorted_by_score(_)
sorted_by_score(s) ==
    IF s = <<>> THEN <<>>
    ELSE insert_behind(s[Len(s)], sorted_by_score(SubSeq(s, 1, Len(s) - 1)))

(***************************************************************************)
(* send_earnings_alert: the payload.  The provider's answer to stock.info: *)
(* kind "error" (the query raises, or currentPrice is None and the         *)
(* comparison raises) or "price" with the price in cents (0 when the key   *)
(* is absent).                                                             *)
(***************************************************************************)
PriceOf(kind, cents) == [kind |-> kind, cents |-> cents]

PriceData ==
    {PriceOf("error", 0), PriceOf("price", 0)}
    \cup {PriceOf("price", n * PriceStep) : n \in 1..MaxPriceSteps}

\* lines 486-494
confidence(score) ==
    IF score >= 80 THEN "HIGH CONFIDENCE"
    ELSE IF score >= 70 THEN "MODERATE CONFIDENCE"
    ELSE "LOW CONFIDENCE"

color(score) ==
    IF score >= 80 THEN 15158332 ELSE IF score >= 70 THEN 16776960 ELSE 3447003

\* lines 523-534: the notional in dollars and the stop and target percentages
notional(score)   == IF score >= 80 THEN 5000 ELSE IF score >= 70 THEN 3000 ELSE 2000
stop_pct(score)   == IF score >= 80 THEN 7 ELSE IF score >= 70 THEN 8 ELSE 10
target_pct(score) == IF score >= 80 THEN 15 ELSE IF score >= 70 THEN 12 ELSE 10

NoPlay == [shares |-> 0, price |-> 0, stop_pct |-> 0, target_pct |-> 0,
           stop_price |-> 0, target_price |-> 0, risk_reward |-> 0]

\* int(notional / price) with the division rounded up
shares_rounded_up(score, cents) == (notional(score) * 100 + cents - 1) \div cents

\* lines 524, 528, 532: int(notional / current_price), the price in cents
shares(score, cents) == (notional(score) * 100) \div cents

\* lines 536-544.  price is in cents; stop_price and target_price are in 1/100
\* cent: price * (1 - stop_pct/100) = price * (100 - stop_pct) / 100;
\* risk_reward is target_pct / stop_pct as the text shows it, in tenths
\* (rounded to the nearest tenth by the format .1f)
play(score, cents) ==
    [shares |-> shares(score, cents), price |-> cents,
     stop_pct |-> stop_pct(score), target_pct |-> target_pct(score),
     stop_price |-> cents * (100 - stop_pct(score)),
     target_price |-> cents * (100 + target_pct(score)),
     risk_reward |-> (target_pct(score) * 20 + stop_pct(score)) \div (2 * stop_pct(score))]

Field(kind, name, score, detail, p) ==
    [kind |-> kind, name |-> name, score |-> score, detail |-> detail, play |-> p]

\* line 508 without the slice [:6]
shown_signals_all(signals) == signals

\* line 508: analysis['signals'][:6]
shown_signals(signals) == SubSeq(signals, 1, Min(6, Len(signals)))

\* lines 507-558
fields(a, price) ==
    LET shown == shown_signals(a.signals)
    IN  [i \in 1..Len(shown) |->
            Field("signal", shown[i].name, shown[i].score, shown[i].detail, NoPlay)]
        \o (IF price.kind = "price" /\ price.cents > 0
            THEN <<Field("play", "Suggested Play (Paper Trading)", 0, "",
                         play(a.total_score, price.cents))>>
            ELSE <<>>)
        \o <<Field("disclaimer", "Remember", 0, "", NoPlay)>>

\* lines 482-565: what send_earnings_alert hands to send_discord_alert
earnings_alert(a, price) ==
    [ticker |-> a.ticker, score |-> a.total_score, sector |-> a.sector,
     days_until |-> a.earnings_date - Today,
     confidence |-> confidence(a.total_score), color |-> color(a.total_score),
     fields |-> fields(a, price)]

NoPayload == [ticker |-> ""]

(***************************************************************************)
(* send_discord_alert.  The webhook's answer: a status code (204 accepts)  *)
(* or "exception" (requests.post raises).  The result is the line printed  *)
(* and whether an exception leaves the method.                             *)
(***************************************************************************)
Responses == {"204", "429", "exception"}

\* the try/except of lines 39-46 missing
send_discord_alert_unguarded(response) ==
    IF response = "204" THEN [logged |-> "sent", raised |-> FALSE]
    ELSE IF response = "exception" THEN [logged |-> "", raised |-> TRUE]
    ELSE [logged |-> "failed", raised |-> FALSE]

\* lines 39-46
send_discord_alert(response) ==
    IF response = "204" THEN [logged |-> "sent", raised |-> FALSE]
    ELSE IF response = "exception" THEN [logged |-> "error", raised |-> FALSE]
    ELSE [logged |-> "failed", raised |-> FALSE]

(***************************************************************************)
(* The provider's answers during a scan (Spec): per query a failure or no  *)
(* data, and data that scores.  The scores they give (30, 25, 14 or -10,   *)
(* 25, 20, 15) put totals on both sides of alert_threshold and of 80:      *)
(* 30+25+14 = 69, 30+25+15 = 70, 30+14+20+15 = 79, 30+25+25 = 80.  The     *)
(* full domains of the answers are explored by SpecCall.                   *)
(***************************************************************************)
ScanCalendarData ==
    {CalendarOf("error", Today, "ok", "Unknown"),
     CalendarOf("date", Today + days_ahead + 1, "ok", "Technology"),
     CalendarOf("date", Today + days_ahead, "ok", "Technology")}

ScanEspData == {EspError, EspOf("pos", RevDict("none", 6, 0))}

ScanInsiderData == {InsiderOf("error", 0), InsiderOf("data", 3)}

ScanAnalystData ==
    {AnalystOf("error", 0, 0), AnalystOf("data", 2, 0), AnalystOf("data", 0, 1)}

ScanMomentumData ==
    {MomentumOf("short", 100, 100, 100), MomentumOf("data", 106, 100, 106)}

ScanHistoryData == {HistoryOf("missing", 0, 0), HistoryOf("data", 4, 3)}

ScanSectorData == {SectorOf("missing", 0, 0), SectorOf("data", 3, 0)}

ScanPriceData == {PriceOf("price", 2 * PriceStep)}

(***************************************************************************)
(* Initial states                                                          *)
(***************************************************************************)
Idle ==
    /\ idx = 1
    /\ upcoming = <<>>
    /\ k = 0
    /\ step = 0
    /\ analysis = NoAnalysis
    /\ res = NoResults
    /\ call = NoCall
    /\ high_priority = <<>>
    /\ scanLog = <<>>
    /\ queue = <<>>
    /\ posts = <<>>
    /\ delivery = "none"
    /\ payload = NoPayload

\* the process starts in main; the environment variable is unset, empty or set
Init ==
    /\ pc = "main"
    /\ webhook \in {"unset", "", "url"}
    /\ Idle

\* a scanner exists and get_upcoming_earnings is called on it
InitFind ==
    /\ pc = "find"
    /\ webhook = "url"
    /\ Idle

\* a scanner exists and analyze_stock is called on a candidate
CallCandidates ==
    {[ticker |-> sample_tickers[1], earnings_date |-> Today + 1, sector |-> s] :
        s \in {"Technology", "Unknown"}}

InitCall ==
    /\ pc = "analyze"
    /\ webhook = "url"
    /\ idx = 1
    /\ \E c \in CallCandidates :
          /\ upcoming = <<c>>
          /\ analysis = NewAnalysis(c)
    /\ k = 1
    /\ step = 0
    /\ res = NoResults
    /\ call = NoCall
    /\ high_priority = <<>>
    /\ scanLog = <<>>
    /\ queue = <<>>
    /\ posts = <<>>
    /\ delivery = "none"
    /\ payload = NoPayload

(***************************************************************************)
(* main (lines 618-634)                                                    *)
(***************************************************************************)
\* line 626 as `if webhook_url is None`: an empty value passes
Main_none_only ==
    /\ pc = "main"
    /\ pc' = IF webhook = "unset" THEN "exit" ELSE "find"
    /\ UNCHANGED <<webhook, idx, upcoming, k, step, analysis, res, call,
                   high_priority, scanLog, queue, posts, delivery, payload>>

Main ==
    /\ pc = "main"
    /\ pc' = IF webhook \in {"unset", ""} THEN "exit" ELSE "find"
    /\ UNCHANGED <<webhook, idx, upcoming, k, step, analysis, res, call,
                   high_priority, scanLog, queue, posts, delivery, payload>>

(***************************************************************************)
(* get_upcoming_earnings (lines 76-107): one turn of the loop              *)
(***************************************************************************)
FindNext(D) ==
    /\ pc = "find"
    /\ idx <= NumTickers
    /\ \E c \in D :
          /\ upcoming' = found(upcoming, sample_tickers[idx], c)
          /\ call' = [fn |-> "calendar", data |-> c]
    /\ idx' = idx + 1
    /\ UNCHANGED <<pc, webhook, k, step, analysis, res,
                   high_priority, scanLog, queue, posts, delivery, payload>>

\* the loop is over: get_upcoming_earnings returns to run_scan (lines 575-586),
\* which returns at once when there is no candidate
FindDone ==
    /\ pc = "find"
    /\ idx > NumTickers
    /\ IF upcoming = <<>>
       THEN /\ pc' = "done"
            /\ UNCHANGED <<k, analysis>>
       ELSE /\ pc' = "analyze"
            /\ k' = 1
            /\ analysis' = NewAnalysis(upcoming[1])
    /\ UNCHANGED <<webhook, idx, upcoming, step, res, call,
                   high_priority, scanLog, queue, posts, delivery, payload>>

\* the direct call: get_upcoming_earnings returns its list (lines 109-114)
FindReturn ==
    /\ pc = "find"
    /\ idx > NumTickers
    /\ pc' = "returned"
    /\ UNCHANGED <<webhook, idx, upcoming, k, step, analysis, res, call,
                   high_priority, scanLog, queue, posts, delivery, payload>>

(***************************************************************************)
(* analyze_stock (lines 434-474): one evaluator per step.  An exception    *)
(* that leaves an evaluator leaves analyze_stock too; run_scan catches it  *)
(* (lines 598-600) and goes on with the next candidate.                    *)
(***************************************************************************)
\* the state of run_scan's loop (line 586) when the turn of candidate k ends
NextCandidate ==
    IF k < Len(upcoming)
    THEN /\ pc' = "analyze"
         /\ k' = k + 1
         /\ analysis' = NewAnalysis(upcoming[k + 1])
         /\ queue' = queue
    ELSE /\ pc' = "alerts"
         /\ k' = k + 1
         /\ analysis' = NoAnalysis
         /\ queue' = sorted_by_score(high_priority')

Evaluated(e, d, r, a) ==
    IF r.raised
    THEN /\ UNCHANGED <<high_priority, scanLog>>
         /\ NextCandidate
         /\ step' = 0
         /\ res' = NoResults
         /\ call' = NoCall
    ELSE /\ call' = [fn |-> e, data |-> d, result |-> r]
         /\ res' = [res EXCEPT ![e] = r]
         /\ analysis' = a
         /\ step' = step + 1
         /\ UNCHANGED <<pc, k, queue, high_priority, scanLog>>

RunEsp(D) ==
    /\ pc = "analyze" /\ step = 0
    /\ \E d \in D :
          LET r == calculate_earnings_esp(d) IN Evaluated("esp", d, r, add_esp(analysis, r))
    /\ UNCHANGED <<webhook, idx, upcoming, posts, delivery, payload>>

RunInsider(D) ==
    /\ pc = "analyze" /\ step = 1
    /\ \E d \in D :
          LET r == check_insider_activity(d)
          IN  Evaluated("insider", d, r, add_insider(analysis, r))
    /\ UNCHANGED <<webhook, idx, upcoming, posts, delivery, payload>>

RunAnalyst(D) ==
    /\ pc = "analyze" /\ step = 2
    /\ \E d \in D :
          LET r == check_analyst_activity(d)
          IN  Evaluated("analyst", d, r, add_analyst(analysis, r))
    /\ UNCHANGED <<webhook, idx, upcoming, posts, delivery, payload>>

RunMomentum(D) ==
    /\ pc = "analyze" /\ step = 3
    /\ \E d \in D :
          LET r == check_price_momentum(d)
          IN  Evaluated("momentum", d, r, add_momentum(analysis, r))
    /\ UNCHANGED <<webhook, idx, upcoming, posts, delivery, payload>>

RunHistory(D) ==
    /\ pc = "analyze" /\ step = 4
    /\ \E d \in D :
          LET r == check_historical_beat_rate(d)
          IN  Evaluated("history", d, r, add_history(analysis, r))
    /\ UNCHANGED <<webhook, idx, upcoming, posts, delivery, payload>>

RunSector(D) ==
    /\ pc = "analyze" /\ step = 5
    /\ \E d \in D :
          LET r == check_sector_momentum(analysis.sector, d)
          IN  Evaluated("sector", d, r, add_sector(analysis, r))
    /\ UNCHANGED <<webhook, idx, upcoming, posts, delivery, payload>>

(***************************************************************************)
(* run_scan (lines 588-596): analyze_stock has returned                    *)
(***************************************************************************)
Decide ==
    /\ pc = "analyze" /\ step = 6
    /\ high_priority' = IF qualifies(analysis.total_score)
                        THEN Append(high_priority, analysis)
                        ELSE high_priority
    /\ scanLog' = Append(scanLog, [ticker |-> analysis.ticker,
                                   total_score |-> analysis.total_score,
                                   alert |-> qualifies(analysis.total_score)])
    /\ NextCandidate
    /\ step' = 0
    /\ res' = NoResults
    /\ call' = NoCall
    /\ UNCHANGED <<webhook, idx, upcoming, posts, delivery, payload>>

\* the direct call: analyze_stock returns its analysis, which the caller keeps
\* and hands to send_earnings_alert whatever its score
CallReturn ==
    /\ pc = "analyze" /\ step = 6
    /\ pc' = "alerts"
    /\ queue' = <<analysis>>
    /\ step' = 0
    /\ res' = NoResults
    /\ call' = NoCall
    /\ UNCHANGED <<webhook, idx, upcoming, k, analysis, high_priority, scanLog,
                   posts, delivery, payload>>

(***************************************************************************)
(* run_scan (lines 605-607): send_earnings_alert on the next analysis of   *)
(* the sorted list, which builds the payload and calls send_discord_alert. *)
(* An exception leaving send_discord_alert would leave run_scan and main.  *)
(* After the last analysis of the list run_scan returns (lines 609-615).   *)
(***************************************************************************)
SendAlert(P) ==
    /\ pc = "alerts"
    /\ queue # <<>>
    /\ \E price \in P, response \in Responses :
          LET alert == earnings_alert(Head(queue), price)
              sent  == send_discord_alert(response)
          IN  /\ payload' = alert
              /\ call' = [fn |-> "info", data |-> price]
              /\ IF sent.raised
                 THEN /\ pc' = "crashed"
                      /\ UNCHANGED <<queue, posts, delivery>>
                 ELSE /\ posts' = Append(posts, [ticker |-> alert.ticker,
                                                 score |-> alert.score,
                                                 confidence |-> alert.confidence])
                      /\ delivery' = sent.logged
                      /\ queue' = Tail(queue)
                      /\ pc' = IF Tail(queue) = <<>> THEN "done" ELSE "alerts"
    /\ UNCHANGED <<webhook, idx, upcoming, k, step, analysis, res,
                   high_priority, scanLog>>

\* lines 603-615 when high_priority is empty: nothing to send
Finish ==
    /\ pc = "alerts"
    /\ queue = <<>>
    /\ pc' = "done"
    /\ UNCHANGED <<webhook, idx, upcoming, k, step, analysis, res, call,
                   high_priority, scanLog, queue, posts, delivery, payload>>

(***************************************************************************)
(* The specifications                                                      *)
(***************************************************************************)
Next ==
    \/ Main
    \/ FindNext(ScanCalendarData)
    \/ FindDone
    \/ RunEsp(ScanEspData)
    \/ RunInsider(ScanInsiderData)
    \/ RunAnalyst(ScanAnalystData)
    \/ RunMomentum(ScanMomentumData)
    \/ RunHistory(ScanHistoryData)
    \/ RunSector(ScanSectorData)
    \/ Decide
    \/ SendAlert(ScanPriceData)
    \/ Finish

Spec == Init /\ [][Next]_vars

NextCall ==
    \/ RunEsp(EspData)
    \/ RunInsider(InsiderData)
    \/ RunAnalyst(AnalystData)
    \/ RunMomentum(MomentumData)
    \/ RunHistory(HistoryData)
    \/ RunSector(SectorData)
    \/ CallReturn
    \/ SendAlert(PriceData)

SpecCall == InitCall /\ [][NextCall]_vars

NextFind ==
    \/ FindNext(CalendarData)
    \/ FindReturn

SpecFind == InitFind /\ [][NextFind]_vars

(***************************************************************************)
(* Properties                                                              *)
(***************************************************************************)
EvaluatorNames == {Evaluators[i] : i \in 1..6}

Returned == pc = "analyze" /\ step = 6

HasSignal(a, name) == \E i \in 1..Len(a.signals) : a.signals[i].name = name

Posted(t) == {j \in 1..Len(posts) : posts[j].ticker = t}

Kept(t) == {j \in 1..Len(high_priority) : high_priority[j].ticker = t}

Discovered(t) == CHOOSE i \in 1..Len(upcoming) : upcoming[i].ticker = t

Kinds(f, kind) == {i \in 1..Len(f) : f[i].kind = kind}

\* C1: when analyze_stock returns, total_score is the sum of the scores the six
\* evaluators returned.
C1_TotalIsSumOfSix ==
    Returned =>
        analysis.total_score =
            res.esp.score + res.insider.score + res.analyst.score
            + res.momentum.score + res.history.score + res.sector.score

\* C2: when check_analyst_activity returned -10, the signals hold no analyst
\* entry and total_score is 10 below the sum of the other five scores (what the
\* total is with a tied analyst result).
C2_DowngradeSubtracted ==
    (Returned /\ res.analyst.score = -10) =>
        /\ ~HasSignal(analysis, "Analyst Activity")
        /\ analysis.total_score =
               res.esp.score + res.insider.score + res.momentum.score
               + res.history.score + res.sector.score - 10

\* C3: every analysed candidate is in high_priority exactly when its total is
\* at least 70, and when run_scan has ended every candidate was analysed and
\* has an alert sent exactly when its total is at least 70.
C3_AlertIffThreshold ==
    /\ \A i \in 1..Len(scanLog) :
          /\ scanLog[i].ticker = upcoming[i].ticker
          /\ (Kept(scanLog[i].ticker) # {}) <=> (scanLog[i].total_score >= 70)
          /\ \A j \in Kept(scanLog[i].ticker) :
                high_priority[j].total_score = scanLog[i].total_score
    /\ pc = "done" =>
          /\ Len(scanLog) = Len(upcoming)
          /\ \A i \in 1..Len(scanLog) :
                (Posted(scanLog[i].ticker) # {}) <=> (scanLog[i].total_score >= 70)

\* a scan has ended in which a candidate with total 70 was alerted and one with
\* total 69 was not
C3_Witness ==
    /\ pc = "done"
    /\ \E i, j \in 1..Len(scanLog) :
          /\ scanLog[i].total_score = 70 /\ Posted(scanLog[i].ticker) # {}
          /\ scanLog[j].total_score = 69 /\ Posted(scanLog[j].ticker) = {}

\* what the evaluator results of one candidate add up to in analyze_stock
OwnTotal(r) ==
    r.esp.score + r.insider.score
    + (IF r.analyst.score > 0 THEN r.analyst.score ELSE 0)
    + r.momentum.score + r.history.score + r.sector.score

C4_State ==
    /\ (call.fn \in EvaluatorNames
        /\ call.data.kind \in {"error", "missing", "short", "nocolumn", "norecent"})
       => /\ call.result = [has |-> FALSE, score |-> 0, signals |-> <<>>, raised |-> FALSE]
          /\ pc = "analyze"
    /\ pc = "analyze" =>
          /\ Len(scanLog) = k - 1
          /\ analysis.ticker = upcoming[k].ticker
          /\ analysis.total_score = OwnTotal(res)
          /\ step = 0 => (analysis.signals = <<>> /\ res = NoResults)
    /\ pc \in {"alerts", "done"} => Len(scanLog) = Len(upcoming)

C4_Step ==
    /\ \A i \in 1..Len(scanLog) : Len(scanLog') >= i /\ scanLog'[i] = scanLog[i]
    /\ \A i \in 1..Len(high_priority) :
          Len(high_priority') >= i /\ high_priority'[i] = high_priority[i]

\* C4: an evaluator whose query fails or finds no data returns the no-signal
\* result with score 0 and analyze_stock goes on; no candidate is left without
\* an analysis; the total of a candidate is made of its own evaluator results
\* only (its analysis starts empty), and what was recorded for the candidates
\* before it never changes.
C4_FaultIsolation == []C4_State /\ [][C4_Step]_vars

\* the second candidate's insider query failed, after its estimate revisions
\* scored 30 and after the first candidate was kept for alerting
C4_Witness ==
    /\ pc = "analyze" /\ k = 2
    /\ call.fn = "insider" /\ call.data.kind = "error"
    /\ res.esp.score = 30
    /\ Len(scanLog) = 1 /\ scanLog[1].alert

C5_State ==
    /\ pc # "crashed"
    /\ \A i, j \in 1..Len(posts) : posts[i].ticker = posts[j].ticker => i = j
    /\ \A i \in 1..Len(posts) :
          /\ Kept(posts[i].ticker) # {}
          /\ \A j \in 1..Len(queue) : queue[j].ticker # posts[i].ticker
    /\ pc \in {"alerts", "done"} => Len(posts) + Len(queue) = Len(high_priority)
    /\ pc = "done" =>
          /\ queue = <<>>
          /\ \A i \in 1..Len(high_priority) :
                Cardinality(Posted(high_priority[i].ticker)) = 1

C5_Step ==
    (pc = "alerts" /\ delivery \in {"failed", "error"}) =>
        /\ pc' \in {"alerts", "done"}
        /\ Len(posts') = Len(posts) + 1
        /\ posts'[Len(posts')].ticker = Head(queue).ticker
        /\ queue' = Tail(queue)

\* C5: every kept analysis is handed to the webhook exactly once; after a
\* delivery that failed (another status than 204, or an exception) the next
\* step delivers the next analysis of the list, and run_scan never ends by an
\* exception of a delivery.
C5_OneAttemptEach == []C5_State /\ [][C5_Step]_vars

\* the first delivery raised an exception and another analysis waits
C5_Witness ==
    /\ pc = "alerts" /\ delivery = "error"
    /\ Len(posts) = 1 /\ queue # <<>>

\* C6: alerts are sent only when every candidate has its result line, in
\* non-increasing order of total score, candidates of equal total in the order
\* get_upcoming_earnings found them.
C6_SortedAlerts ==
    /\ posts # <<>> => Len(scanLog) = Len(upcoming)
    /\ \A i, j \in 1..Len(posts) :
          i < j =>
             /\ posts[i].score >= posts[j].score
             /\ posts[i].score = posts[j].score =>
                   Discovered(posts[i].ticker) < Discovered(posts[j].ticker)

\* the candidate found second was alerted first, having the higher total
C6_Witness ==
    /\ Len(posts) = 2
    /\ posts[1].score > posts[2].score
    /\ Discovered(posts[1].ticker) > Discovered(posts[2].ticker)

AbsDiff(a, b) == IF a < b THEN b - a ELSE a - b

\* C7: for a positive current price the payload has a suggested play with
\* shares = floor(notional / price), notional 5000 / 3000 / 2000 dollars and
\* stop/target 7/15, 8/12, 10/10 percent for score >= 80 / >= 70 / below,
\* stop price = price * (1 - stop/100), target price = price * (1 + target/100)
\* and risk-reward target/stop (shown to the nearest tenth); score 85 at
\* 250.00 gives 20 shares, stop 232.50, target 287.50.
C7_SuggestedPlay ==
    (call.fn = "info" /\ call.data.kind = "price" /\ call.data.cents > 0) =>
        LET s  == payload.score
            p  == call.data.cents
            n  == IF s >= 80 THEN 5000 ELSE IF s >= 70 THEN 3000 ELSE 2000
            sp == IF s >= 80 THEN 7 ELSE IF s >= 70 THEN 8 ELSE 10
            tp == IF s >= 80 THEN 15 ELSE IF s >= 70 THEN 12 ELSE 10
        IN  \E i \in 1..Len(payload.fields) :
               LET y == payload.fields[i].play
               IN  /\ payload.fields[i].kind = "play"
                   /\ y.price = p
                   /\ y.shares * p <= n * 100 /\ n * 100 < (y.shares + 1) * p
                   /\ y.stop_pct = sp /\ y.target_pct = tp
                   /\ y.stop_price = p * (100 - sp)
                   /\ y.target_price = p * (100 + tp)
                   /\ 2 * AbsDiff(y.risk_reward * sp, tp * 10) <= sp
                   /\ (s = 85 /\ p = 25000) =>
                         (y.shares = 20 /\ y.stop_price = 2325000
                          /\ y.target_price = 2875000 /\ y.risk_reward = 21)

\* an alert for score 85 at a current price of 250.00 suggests 20 shares
C7_Witness ==
    /\ call.fn = "info" /\ call.data.kind = "price" /\ call.data.cents = 25000
    /\ payload.score = 85
    /\ \E i \in 1..Len(payload.fields) :
          payload.fields[i].kind = "play" /\ payload.fields[i].play.shares = 20

\* C8 as stated: whatever else the estimate data holds, the score is
\* min(30, 5 * up) when the up-revisions exceed the down-revisions and 0
\* otherwise.
C8_ScoreFromRevisionsAlone ==
    (call.fn = "esp" /\ call.data.kind = "data" /\ call.data.rev.kind = "dict") =>
        call.result.score =
            IF call.data.rev.up > call.data.rev.down
            THEN Min(30, 5 * call.data.rev.up)
            ELSE 0

\* C8, amended: the score is min(30, 5 * up) when a non-zero mean estimate was
\* found (the result has has_data) and the up-revisions exceed the
\* down-revisions, and 0 otherwise, also when the up-revisions exceed the
\* down-revisions but no mean estimate was found; a mean estimate is found
\* when the last 'current' entry among the cells 'Eps Trend' and
\* 'Eps Revisions' is not zero; the score never exceeds 30.
C8_CappedRevisionScore ==
    call.fn = "esp" =>
        LET d == call.data
            estimate == IF d.rev.kind = "dict" /\ d.rev.cur # "none"
                        THEN d.rev.cur ELSE d.trendCur
        IN  /\ call.result.score <= 30
            /\ call.result.has <=> (d.kind = "data" /\ estimate = "pos")
            /\ call.result.score =
                  IF call.result.has /\ d.rev.kind = "dict" /\ d.rev.up > d.rev.down
                  THEN Min(30, 5 * d.rev.up)
                  ELSE 0

\* ten up-revisions against fewer down-revisions scored 30
C8_Witness ==
    /\ call.fn = "esp" /\ call.data.kind = "data"
    /\ call.data.rev.kind = "dict" /\ call.data.rev.up = 10 /\ call.data.rev.down < 10
    /\ call.result.has /\ call.result.score = 30

C9_Table(n) == IF n = 0 THEN 0 ELSE IF n = 1 THEN 10 ELSE IF n = 2 THEN 15 ELSE 25

\* C9: the insider score is 0, 10, 15 for 0, 1, 2 recent purchases and 25 for
\* three or more; it never exceeds 25 and a smaller number of purchases never
\* scores more.
C9_InsiderScore ==
    call.fn = "insider" =>
        /\ call.result.score <= 25
        /\ call.data.kind = "data" =>
              /\ call.result.score = C9_Table(call.data.n)
              /\ \A m \in 0..call.data.n : C9_Table(m) <= call.result.score

\* more than three purchases scored 25
C9_Witness ==
    /\ call.fn = "insider" /\ call.data.kind = "data"
    /\ call.data.n > 3 /\ call.result.score = 25

\* C10: a payload has at most six signal fields, at most one suggested play,
\* which comes after every signal field, and exactly one disclaimer, which is
\* the last field.
C10_PayloadFields ==
    payload # NoPayload =>
        LET f == payload.fields
        IN  /\ Cardinality(Kinds(f, "signal")) <= 6
            /\ Cardinality(Kinds(f, "play")) <= 1
            /\ Cardinality(Kinds(f, "disclaimer")) = 1
            /\ f[Len(f)].kind = "disclaimer"
            /\ \A i \in Kinds(f, "signal"), j \in Kinds(f, "play") : i < j
            /\ \A i \in 1..Len(f) : f[i].kind \in {"signal", "play", "disclaimer"}

\* the payload of an analysis with seven signals: six signal fields, the play
\* and the disclaimer
C10_Witness ==
    /\ payload # NoPayload
    /\ Len(analysis.signals) = 7
    /\ payload.ticker = analysis.ticker
    /\ Cardinality(Kinds(payload.fields, "signal")) = 6
    /\ Cardinality(Kinds(payload.fields, "play")) = 1

TickerIndex(t) == CHOOSE i \in 1..Len(sample_tickers) : sample_tickers[i] = t

Found(t) == {i \in 1..Len(upcoming) : upcoming[i].ticker = t}

C11_State ==
    /\ \A i \in 1..Len(upcoming) :
          /\ TickerIndex(upcoming[i].ticker) < idx
          /\ Today <= upcoming[i].earnings_date
          /\ upcoming[i].earnings_date <= Today + 7
    /\ \A i, j \in 1..Len(upcoming) :
          i < j => TickerIndex(upcoming[i].ticker) < TickerIndex(upcoming[j].ticker)
    /\ call.fn = "calendar" =>
          LET t == sample_tickers[idx - 1]
              d == call.data
          IN  IF d.kind = "date" /\ Today <= d.date /\ d.date <= Today + 7 /\ d.info = "ok"
              THEN /\ upcoming # <<>>
                   /\ upcoming[Len(upcoming)] =
                         [ticker |-> t, earnings_date |-> d.date, sector |-> d.sector]
              ELSE Found(t) = {}

C11_Step ==
    /\ \A i \in 1..Len(upcoming) : Len(upcoming') >= i /\ upcoming'[i] = upcoming[i]
    /\ Len(upcoming') <= Len(upcoming) + 1
    /\ (pc = "find" /\ idx <= NumTickers) => (pc' = "find" /\ idx' = idx + 1)
    /\ (pc = "find" /\ idx > NumTickers) => upcoming' = upcoming
    /\ pc # "find" => upcoming' = upcoming

\* C11: at its turn a ticker is appended to the candidates exactly when the
\* provider gave an earnings date with today <= date <= today + 7 days and the
\* profile query did not fail (today being the moment of the call); otherwise
\* it is skipped.  Whatever the answer, the loop goes on with the next ticker
\* until the universe is through; a candidate once appended stays where it is,
\* so the candidates are in the order of the ticker list.
C11_CandidatesInWindow == []C11_State /\ [][C11_Step]_vars

\* the call has returned: the first ticker was skipped and the second, with its
\* earnings date on the cutoff, is the only candidate
C11_Witness ==
    /\ pc = "returned"
    /\ Len(upcoming) = 1
    /\ upcoming[1].ticker = sample_tickers[2]
    /\ upcoming[1].earnings_date = Today + days_ahead

\* C12: every alert of a scan has a total of at least 70; its label is
\* HIGH CONFIDENCE exactly when the total is at least 80 and MODERATE
\* CONFIDENCE exactly when it is 70..79, never LOW CONFIDENCE; no payload of a
\* scan has the colour, the 10/10 stop and target or the 2000 notional of the
\* lowest tier (the suggested shares cost more than 2000).
C12_NoLowConfidenceAlert ==
    /\ \A i \in 1..Len(posts) :
          /\ posts[i].score >= 70
          /\ posts[i].confidence = "HIGH CONFIDENCE" <=> posts[i].score >= 80
          /\ posts[i].confidence = "MODERATE CONFIDENCE" <=>
                (70 <= posts[i].score /\ posts[i].score <= 79)
          /\ posts[i].confidence # "LOW CONFIDENCE"
    /\ payload # NoPayload =>
          /\ payload.score >= 70
          /\ payload.confidence \in {"HIGH CONFIDENCE", "MODERATE CONFIDENCE"}
          /\ payload.color \in {15158332, 16776960}
          /\ \A i \in Kinds(payload.fields, "play") :
                LET y == payload.fields[i].play
                IN  /\ <<y.stop_pct, y.target_pct>> \in {<<7, 15>>, <<8, 12>>}
                    /\ y.shares * y.price > 2000 * 100

\* a scan has ended that sent an alert of total 80 labelled HIGH CONFIDENCE and
\* one of total 79 labelled MODERATE CONFIDENCE
C12_Witness ==
    /\ pc = "done"
    /\ \E i, j \in 1..Len(posts) :
          /\ posts[i].score = 80 /\ posts[i].confidence = "HIGH CONFIDENCE"
          /\ posts[j].score = 79 /\ posts[j].confidence = "MODERATE CONFIDENCE"

\* C13: in a run whose DISCORD_WEBHOOK_URL is unset or empty, control is in
\* main or has left it by the early return: get_upcoming_earnings has queried
\* no ticker and found no candidate, no evaluator has run, nothing was analysed
\* or kept, no payload was built and nothing was handed to the webhook.
C13_NoWebhookNoScan ==
    webhook \in {"unset", ""} =>
        /\ pc \in {"main", "exit"}
        /\ idx = 1 /\ upcoming = <<>> /\ call = NoCall
        /\ step = 0 /\ res = NoResults /\ analysis = NoAnalysis
        /\ scanLog = <<>> /\ high_priority = <<>> /\ queue = <<>>
        /\ payload = NoPayload /\ posts = <<>> /\ delivery = "none"

\* main has returned early on an empty DISCORD_WEBHOOK_URL
C13_Witness ==
    /\ pc = "exit"
    /\ webhook = ""
    /\ posts = <<>>

RECURSIVE SumOfScores(_)
SumOfScores(signals) ==
    IF signals = <<>> THEN 0 ELSE Head(signals).score + SumOfScores(Tail(signals))

\* C14: when analyze_stock returns, the scores of the entries of the signals
\* list add up to total_score, and no evaluator has more than one entry.
C14_SignalsSumToTotal ==
    Returned =>
        /\ SumOfScores(analysis.signals) = analysis.total_score
        /\ \A i, j \in 1..Len(analysis.signals) :
              analysis.signals[i].name = analysis.signals[j].name => i = j

====
